---- MODULE Spec2Model ----
(***************************************************************************)
(* Authentication and subscription gating of the e-learning service:       *)
(* user registration and login (src/user.py), the JWT token service        *)
(* (src/jwt_setup.py), the guards of the course and subscription routers   *)
(* (src/course.py, src/subscription.py) and the lazy expiry of the 30-day  *)
(* subscription window.                                                    *)
(*                                                                         *)
(* Time is counted in ticks, TicksPerSec ticks to the second, so that the  *)
(* truncation of a token's exp claim to whole seconds is visible.          *)
(* An optional value (Python's None) is the empty tuple <<>>, a present    *)
(* value x is <<x>>.                                                       *)
(***************************************************************************)
EXTENDS Integers, Sequences, FiniteSets, TLC

VARIABLES
    users,      \* table "users": sequence of rows in insertion order
    courses,    \* table "courses": sequence of rows in insertion order
    now,        \* the wall clock, in ticks
    clock,      \* how many times the clock has advanced
    issued,     \* the token the last login handed out, with the data given to issue
    jar,        \* the client's cookie jar: the access_token cookie, if any
    passwords,  \* what the clients know: the plaintext each email registered
    last,       \* the last request and its response
    inflight    \* the requests being handled: each one's position and locals

vars == <<users, courses, now, clock, issued, jar, passwords, last, inflight>>

-----------------------------------------------------------------------------
(* Bounds of the model *)

TicksPerSec == 2
MaxClock == 2
MaxRepeat == 3
MaxCourses == 1
MaxInflight == 2

-----------------------------------------------------------------------------
(* Program constants *)

ACCESS_TOKEN_EXPIRE_MINUTES == 30
SUBSCRIPTION_DURATION_DAYS == 30

SECRET_KEY == "test_secret"
ALGORITHM == "HS256"

-----------------------------------------------------------------------------
(* Time *)

SecTicks == TicksPerSec
MinuteTicks == 60 * SecTicks
DayTicks == 24 * 60 * MinuteTicks

\* datetime.timedelta(days = d), datetime.timedelta(minutes = m)
timedelta_days(d) == d * DayTicks
timedelta_minutes(m) == m * MinuteTicks

\* (a - b).days of a timedelta: whole days, rounded towards minus infinity
td_days(delta) == delta \div DayTicks

\* timegm(dt.utctimetuple()): a datetime as whole seconds, the fraction dropped
timegm(dt) == dt \div SecTicks

None == <<>>
Some(x) == <<x>>
IsSome(o) == o /= <<>>
Get(o) == o[1]

\* dt.isoformat() if dt else None
isoformat(od) == IF IsSome(od) THEN Some([iso |-> Get(od)]) ELSE None

-----------------------------------------------------------------------------
(* Inputs *)

Emails == {"admin@example.com", "student@example.com"}
RegEmails == Emails \cup {"admin2@example.com"}
Roles == {"admin", "student"}
Passwords == {"adminpass", "studentpass"}
PasswordOf(email) == IF email = "admin@example.com" THEN "adminpass" ELSE "studentpass"
RoleOf(email) == IF email = "admin@example.com" THEN "admin" ELSE "student"
NameOf(email) == IF email = "admin@example.com" THEN "Admin User" ELSE "Student User"

-----------------------------------------------------------------------------
(* The user table *)

\* db.query(User).filter(User.email == email).first()
RowsByEmail(tbl, email) == {i \in 1..Len(tbl) : tbl[i].email = email}
RowsByRole(tbl, role) == {i \in 1..Len(tbl) : tbl[i].role = role}
Min(S) == CHOOSE x \in S : \A y \in S : x <= y
first(S) == IF S = {} THEN None ELSE Some(Min(S))

find_user_by_email(tbl, email) == first(RowsByEmail(tbl, email))
find_user_by_role(tbl, role) == first(RowsByRole(tbl, role))

-----------------------------------------------------------------------------
(* Credential verifier: passlib CryptContext(schemes = ["argon2"]) *)

pwd_hash(password) == [scheme |-> "argon2", digest_of |-> password]
pwd_verify(password, hashed) ==
    hashed.scheme = "argon2" /\ hashed.digest_of = password

-----------------------------------------------------------------------------
(* Responses *)

Resp(status, detail, body) == [status |-> status, detail |-> detail, body |-> body]
Ok(body) == Resp(200, "", body)
HTTPException(status, detail) == Resp(status, detail, None)

-----------------------------------------------------------------------------
(* Token service: src/jwt_setup.py *)

\* jwt.encode(payload, key, algorithm): the payload and a MAC over it
Sign(payload, key, alg) == [key |-> key, alg |-> alg, over |-> payload]
jwt_encode(payload, key, alg) ==
    [wellformed |-> TRUE,
     payload |-> [payload EXCEPT !.exp = timegm(payload.exp)],
     sig |-> Sign([payload EXCEPT !.exp = timegm(payload.exp)], key, alg)]

\* jwt.decode(token, key, algorithms): structure, then signature, then exp
jwt_decode(token, key, alg, t) ==
    IF ~token.wellformed THEN [error |-> "DecodeError", payload |-> None]
    ELSE IF token.sig /= Sign(token.payload, key, alg)
        THEN [error |-> "InvalidSignatureError", payload |-> None]
    ELSE IF token.payload.exp * SecTicks <= t
        THEN [error |-> "ExpiredSignatureError", payload |-> None]
    ELSE [error |-> "", payload |-> Some(token.payload)]

\* create_access_token with the lifetime taken as seconds
create_access_token_seconds(data, t) ==
    LET expire == t + ACCESS_TOKEN_EXPIRE_MINUTES * SecTicks
        to_encode == [email |-> data.email,
                      name |-> data.name,
                      role |-> data.role,
                      subscribed |-> data.subscribed,
                      subscription_date |-> data.subscription_date,
                      exp |-> expire]
    IN  jwt_encode(to_encode, SECRET_KEY, ALGORITHM)

\* create_access_token that does not copy the subscription date
create_access_token_no_date(data, t) ==
    LET expire == t + timedelta_minutes(ACCESS_TOKEN_EXPIRE_MINUTES)
        to_encode == [email |-> data.email,
                      name |-> data.name,
                      role |-> data.role,
                      subscribed |-> data.subscribed,
                      subscription_date |-> None,
                      exp |-> expire]
    IN  jwt_encode(to_encode, SECRET_KEY, ALGORITHM)

create_access_token(data, t) ==
    LET expire == t + timedelta_minutes(ACCESS_TOKEN_EXPIRE_MINUTES)
        to_encode == [email |-> data.email,
                      name |-> data.name,
                      role |-> data.role,
                      subscribed |-> data.subscribed,
                      subscription_date |-> data.subscription_date,
                      exp |-> expire]
    IN  jwt_encode(to_encode, SECRET_KEY, ALGORITHM)

\* A request carries an optional access_token cookie and an optional
\* Authorization header [scheme, credentials].
Request(cookie, auth) == [cookie |-> cookie, auth |-> auth]
Bearer(token) == Some([scheme |-> "Bearer", credentials |-> token])
Basic(token) == Some([scheme |-> "Basic", credentials |-> token])

\* The token taken from an Authorization header of any scheme
request_token_any_scheme(request) ==
    IF IsSome(request.cookie) THEN request.cookie
    ELSE IF IsSome(request.auth) THEN Some(Get(request.auth).credentials)
    ELSE None

\* The token taken from the Authorization header first
request_token_header_first(request) ==
    IF IsSome(request.auth) /\ Get(request.auth).scheme = "Bearer"
    THEN Some(Get(request.auth).credentials)
    ELSE request.cookie

\* The token check_token decodes, if any
request_token(request) ==
    IF IsSome(request.cookie) THEN request.cookie
    ELSE IF IsSome(request.auth) /\ Get(request.auth).scheme = "Bearer"
        THEN Some(Get(request.auth).credentials)
    ELSE None

\* check_token that decodes without verifying the signature
check_token_unverified(request, t) ==
    LET token == request_token(request)
    IN  IF ~IsSome(token)
        THEN [err |-> Some(HTTPException(401, "No token found in cookies or Authorization header")),
              user |-> None]
        ELSE IF ~Get(token).wellformed
        THEN [err |-> Some(HTTPException(401, "Invalid token")), user |-> None]
        ELSE IF Get(token).payload.exp * SecTicks <= t
        THEN [err |-> Some(HTTPException(401, "Token expired")), user |-> None]
        ELSE [err |-> None, user |-> Some(Get(token).payload)]

\* check_token of a server that keeps sessions: a token counts only while the
\* session opened by its login has not been closed by a logout
check_token_session(request, t) ==
    LET token == request_token(request)
    IN  IF ~IsSome(token)
        THEN [err |-> Some(HTTPException(401, "No token found in cookies or Authorization header")),
              user |-> None]
        ELSE LET decoded == jwt_decode(Get(token), SECRET_KEY, ALGORITHM, t)
             IN  IF decoded.error = "" /\ token = jar
                 THEN [err |-> None, user |-> decoded.payload]
                 ELSE IF decoded.error = "ExpiredSignatureError"
                 THEN [err |-> Some(HTTPException(401, "Token expired")), user |-> None]
                 ELSE [err |-> Some(HTTPException(401, "Invalid token")), user |-> None]

check_token(request, t) ==
    LET token == request_token(request)
    IN  IF ~IsSome(token)
        THEN [err |-> Some(HTTPException(401, "No token found in cookies or Authorization header")),
              user |-> None]
        ELSE LET decoded == jwt_decode(Get(token), SECRET_KEY, ALGORITHM, t)
             IN  IF decoded.error = ""
                 THEN [err |-> None, user |-> decoded.payload]
                 ELSE IF decoded.error = "ExpiredSignatureError"
                 THEN [err |-> Some(HTTPException(401, "Token expired")), user |-> None]
                 ELSE [err |-> Some(HTTPException(401, "Invalid token")), user |-> None]

-----------------------------------------------------------------------------
(* src/user.py *)

\* A new row that starts subscribed
NewUser_subscribed(tbl, user) ==
    [id |-> Len(tbl) + 1,
     name |-> user.name,
     email |-> user.email,
     hashed_password |-> pwd_hash(user.password),
     role |-> user.role,
     subscribed |-> TRUE,
     subscription_date |-> None]

NewUser(tbl, user) ==
    [id |-> Len(tbl) + 1,
     name |-> user.name,
     email |-> user.email,
     hashed_password |-> pwd_hash(user.password),
     role |-> user.role,
     subscribed |-> FALSE,
     subscription_date |-> None]

\* register_user without the check that the email is stored
register_user_any_email(tbl, user) ==
    IF user.role = "admin" /\ IsSome(find_user_by_role(tbl, "admin"))
    THEN [users |-> tbl, resp |-> HTTPException(400, "Admin user already exists")]
    ELSE [users |-> Append(tbl, NewUser(tbl, user)),
          resp |-> Ok(Some(NewUser(tbl, user)))]

\* register_user without the check that an admin exists
register_user_any_admin(tbl, user) ==
    IF IsSome(find_user_by_email(tbl, user.email))
    THEN [users |-> tbl, resp |-> HTTPException(400, "User with this email already exists")]
    ELSE [users |-> Append(tbl, NewUser(tbl, user)),
          resp |-> Ok(Some(NewUser(tbl, user)))]

\* register_user that stores the row before it looks for an admin
register_user_add_first(tbl, user) ==
    IF IsSome(find_user_by_email(tbl, user.email))
    THEN [users |-> tbl, resp |-> HTTPException(400, "User with this email already exists")]
    ELSE IF user.role = "admin" /\ IsSome(find_user_by_role(tbl, "admin"))
    THEN [users |-> Append(tbl, NewUser(tbl, user)),
          resp |-> HTTPException(400, "Admin user already exists")]
    ELSE [users |-> Append(tbl, NewUser(tbl, user)),
          resp |-> Ok(Some(NewUser(tbl, user)))]

\* register_user that looks for an admin before it looks for the email
register_user_admin_check_first(tbl, user) ==
    IF user.role = "admin" /\ IsSome(find_user_by_role(tbl, "admin"))
    THEN [users |-> tbl, resp |-> HTTPException(400, "Admin user already exists")]
    ELSE IF IsSome(find_user_by_email(tbl, user.email))
    THEN [users |-> tbl, resp |-> HTTPException(400, "User with this email already exists")]
    ELSE [users |-> Append(tbl, NewUser(tbl, user)),
          resp |-> Ok(Some(NewUser(tbl, user)))]

\* POST /user/register
register_user(tbl, user) ==
    IF IsSome(find_user_by_email(tbl, user.email))
    THEN [users |-> tbl, resp |-> HTTPException(400, "User with this email already exists")]
    ELSE IF user.role = "admin" /\ IsSome(find_user_by_role(tbl, "admin"))
    THEN [users |-> tbl, resp |-> HTTPException(400, "Admin user already exists")]
    ELSE [users |-> Append(tbl, NewUser(tbl, user)),
          resp |-> Ok(Some(NewUser(tbl, user)))]

token_data(row) ==
    [email |-> row.email,
     name |-> row.name,
     role |-> row.role,
     subscribed |-> row.subscribed,
     subscription_date |-> isoformat(row.subscription_date)]

\* login_user that tells an unknown email from a wrong password
login_user_not_found(tbl, login, t) ==
    LET user == find_user_by_email(tbl, login.email)
    IN  IF ~IsSome(user) THEN HTTPException(404, "User not found")
        ELSE IF ~pwd_verify(login.password, tbl[Get(user)].hashed_password)
        THEN HTTPException(401, "Invalid email or password")
        ELSE Ok(Some(create_access_token(token_data(tbl[Get(user)]), t)))

\* POST /user/login
login_user(tbl, login, t) ==
    LET user == find_user_by_email(tbl, login.email)
    IN  IF ~IsSome(user) \/ ~pwd_verify(login.password, tbl[Get(user)].hashed_password)
        THEN HTTPException(401, "Invalid email or password")
        ELSE Ok(Some(create_access_token(token_data(tbl[Get(user)]), t)))

\* POST /user/logout: check_token(request), then logout()
logout_user(request, t) ==
    LET token == check_token(request, t)
    IN  IF IsSome(token.err) THEN Get(token.err)
        ELSE Ok(Some([message |-> "Logged out"]))

-----------------------------------------------------------------------------
(* Guards: src/course.py and src/subscription.py *)

Identity(row) ==
    [email |-> row.email,
     name |-> row.name,
     role |-> row.role,
     subscribed |-> row.subscribed,
     subscription_date |-> isoformat(row.subscription_date)]

\* What a guard yields: the error it raises, or the row it resolved and the
\* identity it returns
Denied(exc) == [err |-> Some(exc), row |-> None, identity |-> None]
Allowed(i, tbl) == [err |-> None, row |-> Some(i), identity |-> Some(Identity(tbl[i]))]

\* The subscription check that lets an admin through
require_subscribed_unless_admin(row, t) ==
    IF row.role = "admin" THEN None
    ELSE IF ~row.subscribed
    THEN Some(HTTPException(403, "Subscription required to access courses"))
    ELSE IF IsSome(row.subscription_date)
            /\ t > Get(row.subscription_date) + timedelta_days(30)
    THEN Some(HTTPException(403, "Subscription has expired"))
    ELSE None

\* The subscription check that refuses a subscribed row without a date
require_subscribed_dated(row, t) ==
    IF ~row.subscribed
    THEN Some(HTTPException(403, "Subscription required to access courses"))
    ELSE IF ~IsSome(row.subscription_date)
            \/ t > Get(row.subscription_date) + timedelta_days(30)
    THEN Some(HTTPException(403, "Subscription has expired"))
    ELSE None

\* The subscription check of course.get_current_subscribed_user on the row it
\* fetched: the error it raises, if any. A subscribed row without a date passes.
require_subscribed(row, t) ==
    IF ~row.subscribed
    THEN Some(HTTPException(403, "Subscription required to access courses"))
    ELSE IF IsSome(row.subscription_date)
            /\ t > Get(row.subscription_date) + timedelta_days(30)
    THEN Some(HTTPException(403, "Subscription has expired"))
    ELSE None

\* get_current_subscribed_user that trusts the subscribed claim of the token
get_current_subscribed_user_claims(request, tbl, t) ==
    LET token_data_ == check_token(request, t)
    IN  IF IsSome(token_data_.err) THEN Denied(Get(token_data_.err))
        ELSE LET user == find_user_by_email(tbl, Get(token_data_.user).email)
             IN  IF ~IsSome(user) THEN Denied(HTTPException(401, "User not found"))
                 ELSE IF ~Get(token_data_.user).subscribed
                 THEN Denied(HTTPException(403, "Subscription required to access courses"))
                 ELSE Allowed(Get(user), tbl)

\* course.get_current_subscribed_user: the row index of the caller, or the error
get_current_subscribed_user(request, tbl, t) ==
    LET token_data_ == check_token(request, t)
    IN  IF IsSome(token_data_.err) THEN Denied(Get(token_data_.err))
        ELSE LET user == find_user_by_email(tbl, Get(token_data_.user).email)
             IN  IF ~IsSome(user) THEN Denied(HTTPException(401, "User not found"))
                 ELSE IF IsSome(require_subscribed(tbl[Get(user)], t))
                 THEN Denied(Get(require_subscribed(tbl[Get(user)], t)))
                 ELSE Allowed(Get(user), tbl)

\* An admin guard that tests the role claim of the token before it looks the
\* user up
get_current_admin_claim_first(request, tbl, t) ==
    LET token_data_ == check_token(request, t)
    IN  IF IsSome(token_data_.err) THEN Denied(Get(token_data_.err))
        ELSE IF Get(token_data_.user).role /= "admin"
        THEN Denied(HTTPException(403, "Admin access required"))
        ELSE LET user == find_user_by_email(tbl, Get(token_data_.user).email)
             IN  IF ~IsSome(user) THEN Denied(HTTPException(401, "User not found"))
                 ELSE IF tbl[Get(user)].role /= "admin"
                 THEN Denied(HTTPException(403, "Admin access required"))
                 ELSE Allowed(Get(user), tbl)

\* An admin guard that also lets a subscribed user through
get_current_admin_or_subscriber(request, tbl, t) ==
    LET token_data_ == check_token(request, t)
    IN  IF IsSome(token_data_.err) THEN Denied(Get(token_data_.err))
        ELSE LET user == find_user_by_email(tbl, Get(token_data_.user).email)
             IN  IF ~IsSome(user) THEN Denied(HTTPException(401, "User not found"))
                 ELSE IF tbl[Get(user)].role /= "admin" /\ ~tbl[Get(user)].subscribed
                 THEN Denied(HTTPException(403, "Admin access required"))
                 ELSE Allowed(Get(user), tbl)

\* course.get_current_admin and subscription.get_current_admin (the same code)
get_current_admin(request, tbl, t) ==
    LET token_data_ == check_token(request, t)
    IN  IF IsSome(token_data_.err) THEN Denied(Get(token_data_.err))
        ELSE LET user == find_user_by_email(tbl, Get(token_data_.user).email)
             IN  IF ~IsSome(user) THEN Denied(HTTPException(401, "User not found"))
                 ELSE IF tbl[Get(user)].role /= "admin"
                 THEN Denied(HTTPException(403, "Admin access required"))
                 ELSE Allowed(Get(user), tbl)

\* subscription.get_current_user
get_current_user(request, tbl, t) ==
    LET token_data_ == check_token(request, t)
    IN  IF IsSome(token_data_.err) THEN Denied(Get(token_data_.err))
        ELSE LET user == find_user_by_email(tbl, Get(token_data_.user).email)
             IN  IF ~IsSome(user) THEN Denied(HTTPException(401, "User not found"))
                 ELSE Allowed(Get(user), tbl)

-----------------------------------------------------------------------------
(* src/subscription.py *)

\* The only purchase route is POST /subscription/purchase: a path with a
\* further segment (/subscription/purchase/2) matches no route of the app.
purchase_route(path_id) ==
    IF IsSome(path_id) THEN Some(HTTPException(404, "Not Found")) ELSE None

\* A purchase that records no date
purchased_no_date(row, t) == [row EXCEPT !.subscribed = TRUE]

\* A purchase that also rewrites the role of the row
purchased_as_subscriber(row, t) ==
    [row EXCEPT !.subscribed = TRUE, !.subscription_date = Some(t), !.role = "subscriber"]

\* current_user.subscribed = True; current_user.subscription_date = now
purchased(row, t) == [row EXCEPT !.subscribed = TRUE, !.subscription_date = Some(t)]

\* A purchase that writes the first row of the table instead of the caller's
purchase_subscription_first_row(request, tbl, t) ==
    LET g == get_current_user(request, tbl, t)
    IN  IF IsSome(g.err) THEN [users |-> tbl, resp |-> Get(g.err)]
        ELSE IF tbl[1].subscribed
        THEN [users |-> tbl, resp |-> Ok(Some([message |-> "Already purchased"]))]
        ELSE [users |-> [tbl EXCEPT ![1] = purchased(tbl[1], t)],
              resp |-> Ok(Some([message |-> "Subscription purchased successfully"]))]

\* A purchase that renews the date of a row already subscribed
purchase_subscription_renewing(request, tbl, t) ==
    LET g == get_current_user(request, tbl, t)
    IN  IF IsSome(g.err) THEN [users |-> tbl, resp |-> Get(g.err)]
        ELSE IF tbl[Get(g.row)].subscribed
        THEN [users |-> [tbl EXCEPT ![Get(g.row)] = purchased(tbl[Get(g.row)], t)],
              resp |-> Ok(Some([message |-> "Already purchased"]))]
        ELSE [users |-> [tbl EXCEPT ![Get(g.row)] = purchased(tbl[Get(g.row)], t)],
              resp |-> Ok(Some([message |-> "Subscription purchased successfully"]))]

\* POST /subscription/purchase
purchase_subscription(request, tbl, t) ==
    LET g == get_current_user(request, tbl, t)
    IN  IF IsSome(g.err) THEN [users |-> tbl, resp |-> Get(g.err)]
        ELSE IF tbl[Get(g.row)].subscribed
        THEN [users |-> tbl, resp |-> Ok(Some([message |-> "Already purchased"]))]
        ELSE [users |-> [tbl EXCEPT ![Get(g.row)] = purchased(tbl[Get(g.row)], t)],
              resp |-> Ok(Some([message |-> "Subscription purchased successfully"]))]

\* user.subscribed = False
expired(row) == [row EXCEPT !.subscribed = FALSE]

\* The body of check_subscription on the row it fetched: the row as it is
\* stored afterwards, and the response
subscription_status(row, t) ==
    IF ~row.subscribed \/ ~IsSome(row.subscription_date)
    THEN [row |-> row,
          body |-> [subscribed |-> FALSE, message |-> "No active subscription",
                    days_left |-> None]]
    ELSE LET expires_on == Get(row.subscription_date)
                             + timedelta_days(SUBSCRIPTION_DURATION_DAYS)
         IN  IF t > expires_on
             THEN [row |-> expired(row),
                   body |-> [subscribed |-> FALSE, message |-> "Subscription expired",
                             days_left |-> None]]
             ELSE [row |-> row,
                   body |-> [subscribed |-> TRUE, message |-> "",
                             days_left |-> Some(td_days(expires_on - t))]]

\* GET /subscription/check/{email}
check_subscription(request, email, tbl, t) ==
    LET g == get_current_admin(request, tbl, t)
        user == find_user_by_email(tbl, email)
    IN  IF IsSome(g.err) THEN [users |-> tbl, resp |-> Get(g.err)]
        ELSE IF ~IsSome(user)
        THEN [users |-> tbl, resp |-> HTTPException(404, "User not found")]
        ELSE [users |-> [tbl EXCEPT ![Get(user)] = subscription_status(tbl[Get(user)], t).row],
              resp |-> Ok(Some(subscription_status(tbl[Get(user)], t).body))]

\* response_model = list[UserResponse]
UserResponse(row) ==
    [id |-> row.id,
     name |-> row.name,
     email |-> row.email,
     role |-> row.role,
     subscribed |-> row.subscribed,
     subscription_date |-> row.subscription_date]

\* GET /users
get_all_users(request, tbl, t) ==
    LET g == get_current_admin(request, tbl, t)
    IN  IF IsSome(g.err) THEN Get(g.err)
        ELSE Ok(Some([i \in 1..Len(tbl) |-> UserResponse(tbl[i])]))

-----------------------------------------------------------------------------
(* src/course.py *)

\* GET /course
get_course(request, tbl, crs, t) ==
    LET g == get_current_subscribed_user(request, tbl, t)
    IN  IF IsSome(g.err) THEN Get(g.err) ELSE Ok(Some(crs))

\* The course table: db.query(Course).filter(Course.id == course_id).first()
RowsById(crs, course_id) == {i \in 1..Len(crs) : crs[i].id = course_id}
find_course(crs, course_id) == first(RowsById(crs, course_id))

\* The id SQLite gives a new row of an INTEGER PRIMARY KEY table: one more
\* than the largest id in the table
Max(S) == CHOOSE x \in S : \A y \in S : x >= y
next_id(crs) == IF crs = <<>> THEN 1 ELSE Max({crs[i].id : i \in 1..Len(crs)}) + 1

\* Course(**course_form.model_dump())
NewCourse(crs, form) ==
    [id |-> next_id(crs),
     title |-> form.title,
     description |-> form.description,
     author |-> form.author,
     course_url |-> form.course_url,
     category |-> form.category,
     grade |-> form.grade]

\* for key, value in course_update.items(): setattr(course, key, value)
Updated(course, form) ==
    [id |-> course.id,
     title |-> form.title,
     description |-> form.description,
     author |-> form.author,
     course_url |-> form.course_url,
     category |-> form.category,
     grade |-> form.grade]

Remove(crs, i) == SubSeq(crs, 1, i - 1) \o SubSeq(crs, i + 1, Len(crs))

\* POST /course/add
add_course(request, form, tbl, crs, t) ==
    LET g == get_current_admin(request, tbl, t)
    IN  IF IsSome(g.err) THEN [courses |-> crs, resp |-> Get(g.err)]
        ELSE [courses |-> Append(crs, NewCourse(crs, form)),
              resp |-> Ok(Some(NewCourse(crs, form)))]

\* PUT /course/update/{course_id}
update_course(request, course_id, form, tbl, crs, t) ==
    LET g == get_current_admin(request, tbl, t)
        course == find_course(crs, course_id)
    IN  IF IsSome(g.err) THEN [courses |-> crs, resp |-> Get(g.err)]
        ELSE IF ~IsSome(course)
        THEN [courses |-> crs,
              resp |-> HTTPException(404, "The course with id=" \o ToString(course_id)
                                            \o " does not exist")]
        ELSE [courses |-> [crs EXCEPT ![Get(course)] = Updated(crs[Get(course)], form)],
              resp |-> Ok(Some(Updated(crs[Get(course)], form)))]

\* DELETE /course/delete/{course_id}
delete_course(request, course_id, tbl, crs, t) ==
    LET g == get_current_admin(request, tbl, t)
        course == find_course(crs, course_id)
    IN  IF IsSome(g.err) THEN [courses |-> crs, resp |-> Get(g.err)]
        ELSE IF ~IsSome(course)
        THEN [courses |-> crs, resp |-> HTTPException(404, "Course not found")]
        ELSE [courses |-> Remove(crs, Get(course)),
              resp |-> Ok(Some([message |-> "Course removed"]))]

\* str.lower() and int() on the queries of the model
lower(query) == IF query = "MATH" THEN "math" ELSE query
int(query) == CASE query = "6" -> 6 [] query = "10" -> 10 [] query = "12" -> 12

\* GET /course/{query}
filter_course(request, query, tbl, crs, t) ==
    LET g == get_current_subscribed_user(request, tbl, t)
        query_lower == lower(query)
    IN  IF IsSome(g.err) THEN Get(g.err)
        ELSE IF query_lower \in {"math", "science", "ict"}
        THEN Ok(Some(SelectSeq(crs, LAMBDA course : course.category = query_lower)))
        ELSE IF query \in {"6", "10", "12"}
        THEN Ok(Some(SelectSeq(crs, LAMBDA course : course.grade = int(query))))
        ELSE HTTPException(400, "Invalid category or grade")

-----------------------------------------------------------------------------
(* The state machine *)

\* What a client can present: a token it holds, a held token with its payload
\* altered and the signature kept, a token signed with another key, or bytes
\* that are no token at all.
Held == IF IsSome(issued) THEN {Get(issued).token} ELSE {}

OtherEmail(email) == CHOOSE e \in Emails : e /= email

\* Claims raised in the payload, the signature kept
Escalated(token) ==
    {[token EXCEPT !.payload.role = "admin"],
     [token EXCEPT !.payload.subscribed = TRUE]} \ {token}

Tampered(token) ==
    Escalated(token)
    \cup ({[token EXCEPT !.payload.email = OtherEmail(token.payload.email)],
           [token EXCEPT !.payload.exp = token.payload.exp
                                           + 60 * ACCESS_TOKEN_EXPIRE_MINUTES]} \ {token})

Forged(token) ==
    {[token EXCEPT !.sig = Sign(token.payload, "attacker_key", ALGORITHM)],
     [token EXCEPT !.sig = Sign(token.payload, "", "none")]}

Malformed == [wellformed |-> FALSE, payload |-> None, sig |-> None]

\* The requests of a client: the cookie of its jar, or the token of the login
\* response in the Authorization header, or no credential
Clients ==
    {Request(jar, None), Request(None, None)}
    \cup {Request(None, Bearer(t)) : t \in Held}

\* The requests of a client that raises its claims
Escalations == {Request(Some(x), None) : x \in UNION {Escalated(t) : t \in Held}}

\* The tokens a login of a registered user at t would return
LoginTokens(t) ==
    {create_access_token(token_data(users[i]), t) : i \in 1..Len(users)}

\* The requests of a client that sends the cookie of its jar together with the
\* token of a new login in the Authorization header
Doubled ==
    IF IsSome(jar) THEN {Request(jar, Bearer(t)) : t \in LoginTokens(now)} ELSE {}

\* The requests of an attacker of the token service
Attackers ==
    {Request(Some(x), None) : x \in UNION {Tampered(t) \cup Forged(t) : t \in Held}}
    \cup {Request(Some(Malformed), None)}
    \cup {Request(None, Basic(t)) : t \in Held}

\* The last request: the operation, and the status and detail (or message) of
\* its response
Last(op, resp) ==
    [op |-> op, status |-> resp.status,
     detail |-> IF resp.status = 200 /\ IsSome(resp.body) /\ op \in {"purchase", "check_subscription", "logout"}
                THEN Get(resp.body).message ELSE resp.detail]

NoRequest == [op |-> "none", status |-> 0, detail |-> ""]

Init ==
    /\ users = <<>>
    /\ courses = <<>>
    /\ now = 0
    /\ clock = 0
    /\ issued = None
    /\ jar = None
    /\ passwords = <<>>
    /\ last = NoRequest
    /\ inflight = <<>>

Register(email, password, role) ==
    LET user == [name |-> NameOf(email), email |-> email,
                 password |-> password, role |-> role]
        r == register_user(users, user)
    IN  /\ users' = r.users
        /\ passwords' = IF r.resp.status = 200
                        THEN Append(passwords, [email |-> email, password |-> password])
                        ELSE passwords
        /\ last' = Last("register", r.resp)
        /\ UNCHANGED <<courses, now, clock, issued, jar, inflight>>

Login(email, password) ==
    LET r == login_user(users, [email |-> email, password |-> password], now)
        new == [token |-> Get(r.body),
                data |-> token_data(users[Get(find_user_by_email(users, email))]),
                at |-> now]
    IN  /\ issued' = IF r.status = 200 THEN Some(new) ELSE issued
        /\ jar' = IF r.status = 200 THEN Some(new.token) ELSE jar
        /\ last' = Last("login", r)
        /\ UNCHANGED <<users, courses, now, clock, passwords, inflight>>

\* POST /user/logout: check_token, then the cookie is deleted at the client
Logout(c) ==
    LET r == logout_user(c, now)
    IN  /\ jar' = IF r.status = 200 THEN None ELSE jar
        /\ last' = Last("logout", r)
        /\ UNCHANGED <<users, courses, now, clock, issued, passwords, inflight>>

Purchase(c, path_id) ==
    LET route == purchase_route(path_id)
        r == IF IsSome(route) THEN [users |-> users, resp |-> Get(route)]
             ELSE purchase_subscription(c, users, now)
    IN  /\ users' = r.users
        /\ last' = Last("purchase", r.resp)
        /\ UNCHANGED <<courses, now, clock, issued, jar, passwords, inflight>>

GetCourse(c) ==
    LET r == get_course(c, users, courses, now)
    IN  /\ last' = Last("get_course", r)
        /\ UNCHANGED <<users, courses, now, clock, issued, jar, passwords, inflight>>

CheckSubscription(c, email) ==
    LET r == check_subscription(c, email, users, now)
    IN  /\ users' = r.users
        /\ last' = Last("check_subscription", r.resp)
        /\ UNCHANGED <<courses, now, clock, issued, jar, passwords, inflight>>

\* The clock advances by a tick, by the lifetime of a token, or by the length
\* of the subscription window
TokenSteps == {1, timedelta_minutes(ACCESS_TOKEN_EXPIRE_MINUTES)}
WindowSteps == {1, timedelta_days(SUBSCRIPTION_DURATION_DAYS)}

Tick(d) ==
    /\ clock < MaxClock
    /\ now' = now + d
    /\ clock' = clock + 1
    /\ UNCHANGED <<users, courses, issued, jar, passwords, last, inflight>>

PathIds == {None} \cup {Some(i) : i \in 1..Len(users)}

\* Registration, login, the subscription routes and the course list, on the
\* time scale of the subscription window
Next ==
    \/ \E e \in Emails : Register(e, PasswordOf(e), RoleOf(e))
    \/ \E e \in Emails, p \in Passwords : Login(e, p)
    \/ \E c \in Clients \cup Escalations, id \in PathIds : Purchase(c, id)
    \/ \E c \in Clients \cup Escalations : GetCourse(c)
    \/ \E c \in Clients \cup Escalations, e \in Emails : CheckSubscription(c, e)
    \/ \E d \in WindowSteps : Tick(d)

Spec == Init /\ [][Next]_vars

\* Registration, login and the token service, on the time scale of a token's
\* lifetime
NextAuth ==
    \/ \E e \in Emails, r \in Roles : Register(e, PasswordOf(e), r)
    \/ \E e \in Emails, p \in Passwords : Login(e, p)
    \/ \E c \in Clients \cup Attackers \cup Doubled : Logout(c)
    \/ \E d \in TokenSteps : Tick(d)

SpecAuth == Init /\ [][NextAuth]_vars

\* Registration and login alone, with every email, password and role
NextReg ==
    \/ \E e \in RegEmails, p \in Passwords, r \in Roles : Register(e, p, r)
    \/ \E e \in RegEmails, p \in Passwords : Login(e, p)

SpecReg == Init /\ [][NextReg]_vars

\* The users table with the admin and the student of Emails registered
Enrolled ==
    LET form(e) == [name |-> NameOf(e), email |-> e,
                    password |-> PasswordOf(e), role |-> RoleOf(e)]
        t1 == register_user(<<>>, form("admin@example.com")).users
    IN  register_user(t1, form("student@example.com")).users

\* The course forms of the tests, and the ids a path can name
CourseForms ==
    {[title |-> "Test Course", description |-> "Test Description",
      author |-> "Test Author", course_url |-> "https://example.com",
      category |-> "math", grade |-> 10],
     [title |-> "Updated Course", description |-> "Updated Description",
      author |-> "Updated Author", course_url |-> "https://updated.com",
      category |-> "science", grade |-> 12]}
CourseIds == 1..(MaxCourses + 1)
Queries == {"math", "MATH", "science", "ict", "6", "8", "10", "12", "history"}

AddCourse(c, form) ==
    LET r == add_course(c, form, users, courses, now)
    IN  /\ Len(courses) < MaxCourses
        /\ courses' = r.courses
        /\ last' = Last("add_course", r.resp)
        /\ UNCHANGED <<users, now, clock, issued, jar, passwords, inflight>>

UpdateCourse(c, course_id, form) ==
    LET r == update_course(c, course_id, form, users, courses, now)
    IN  /\ courses' = r.courses
        /\ last' = Last("update_course", r.resp)
        /\ UNCHANGED <<users, now, clock, issued, jar, passwords, inflight>>

DeleteCourse(c, course_id) ==
    LET r == delete_course(c, course_id, users, courses, now)
    IN  /\ courses' = r.courses
        /\ last' = Last("delete_course", r.resp)
        /\ UNCHANGED <<users, now, clock, issued, jar, passwords, inflight>>

FilterCourse(c, query) ==
    LET r == filter_course(c, query, users, courses, now)
    IN  /\ last' = Last("filter_course", r)
        /\ UNCHANGED <<users, courses, now, clock, issued, jar, passwords, inflight>>

GetAllUsers(c) ==
    LET r == get_all_users(c, users, now)
    IN  /\ last' = Last("get_all_users", r)
        /\ UNCHANGED <<users, courses, now, clock, issued, jar, passwords, inflight>>

\* The routes of the course and subscription routers, with registration and
\* login, for the admin and the student of the tests
NextCourse ==
    \/ \E e \in Emails : Register(e, PasswordOf(e), RoleOf(e))
    \/ \E e \in Emails : Login(e, PasswordOf(e))
    \/ \E c \in Clients : Purchase(c, None)
    \/ \E c \in Clients : GetCourse(c)
    \/ \E c \in Clients, e \in Emails : CheckSubscription(c, e)
    \/ \E c \in Clients : GetAllUsers(c)
    \/ \E c \in Clients, form \in CourseForms : AddCourse(c, form)
    \/ \E c \in Clients, id \in CourseIds, form \in CourseForms : UpdateCourse(c, id, form)
    \/ \E c \in Clients, id \in CourseIds : DeleteCourse(c, id)
    \/ \E c \in Clients, q \in Queries : FilterCourse(c, q)

SpecCourse == Init /\ [][NextCourse]_vars

\* Every pair of subscribed and subscription_date the users table can hold in
\* the student's row: both columns are nullable and independent
InitRow ==
    /\ \E s \in BOOLEAN, d \in {None, Some(0)} :
          users = [Enrolled EXCEPT ![2].subscribed = s, ![2].subscription_date = d]
    /\ courses = <<>>
    /\ now = 0
    /\ clock = 0
    /\ issued = None
    /\ jar = None
    /\ passwords = [i \in 1..2 |-> [email |-> Enrolled[i].email,
                                    password |-> PasswordOf(Enrolled[i].email)]]
    /\ last = NoRequest
    /\ inflight = <<>>

\* The two expiry checks, on every row
NextRow ==
    \/ \E e \in Emails : Login(e, PasswordOf(e))
    \/ \E c \in Clients : GetCourse(c)
    \/ \E c \in Clients, e \in Emails : CheckSubscription(c, e)
    \/ \E d \in WindowSteps : Tick(d)

SpecRow == InitRow /\ [][NextRow]_vars

-----------------------------------------------------------------------------
(* Registration *)

Admins == RowsByRole(users, "admin")

\* C1: after any sequence of register requests, of any roles and emails, the
\* user table holds at most one row whose role is admin.
C1_AtMostOneAdmin == Cardinality(Admins) <= 1

\* A second admin, under an email not yet registered, was refused and the table
\* still holds the one admin.
C1_Witness ==
    /\ last.op = "register"
    /\ last.status = 400
    /\ last.detail = "Admin user already exists"
    /\ Cardinality(Admins) = 1
    /\ Len(users) >= 2

-----------------------------------------------------------------------------
(* Login *)

\* The email was registered, and with this password
RegisteredWith(email, password) ==
    \E i \in 1..Len(passwords) :
        passwords[i] = [email |-> email, password |-> password]

Registered(email) == \E i \in 1..Len(users) : users[i].email = email

\* C7: login succeeds and issues a token if and only if the email is registered
\* and the password is the one it was registered with; every other login, of an
\* unknown email or with a wrong password, gets the same response, 401
\* "Invalid email or password", with no token.
C7_LoginIffRegistered ==
    /\ \A e \in RegEmails, p \in Passwords :
        LET r == login_user(users, [email |-> e, password |-> p], now)
        IN  /\ (r.status = 200) <=> RegisteredWith(e, p)
            /\ r.status = 200 => IsSome(r.body)
            /\ r.status /= 200 => r = HTTPException(401, "Invalid email or password")
    /\ last.op = "login" =>
        \/ last.status = 200
        \/ last.status = 401 /\ last.detail = "Invalid email or password"

\* Every email is registered, so the login that was just refused named a known
\* email and a wrong password.
C7_Witness ==
    /\ last.op = "login"
    /\ last.status = 401
    /\ \A e \in RegEmails : Registered(e)

-----------------------------------------------------------------------------
(* Token service *)

InvalidToken == [err |-> Some(HTTPException(401, "Invalid token")), user |-> None]
ExpiredToken == [err |-> Some(HTTPException(401, "Token expired")), user |-> None]

\* The instant, in ticks, at which a token's exp claim falls
ExpTicks(token) == token.payload.exp * SecTicks

\* Times around the expiry of a token
TimesAround(token) ==
    {now, now + 1, ExpTicks(token), ExpTicks(token) + 1, ExpTicks(token) + SecTicks}
    \cup (IF ExpTicks(token) > 0 THEN {ExpTicks(token) - 1} ELSE {})

\* The two ways of presenting a token
Presented(token) == {Request(Some(token), None), Request(None, Bearer(token))}

\* C4: a token whose signed payload was altered, or whose signature is not the
\* server's, is rejected as "Invalid token" at every time, before or after its
\* exp: never as "Token expired", never accepted.
C4_TamperedIsInvalid ==
    \A t \in Held : \A x \in Tampered(t) \cup Forged(t) :
        \A req \in Presented(x) : \A tm \in TimesAround(t) \cup TimesAround(x) :
            check_token(req, tm) = InvalidToken

\* The token of the last login has expired, a tampered copy of it is refused
\* as invalid, and a request was just answered "Invalid token".
C4_Witness ==
    /\ IsSome(issued)
    /\ ExpTicks(Get(issued).token) <= now
    /\ \E x \in Tampered(Get(issued).token) :
        ExpTicks(x) <= now /\ check_token(Request(Some(x), None), now) = InvalidToken
    /\ last.op = "logout"
    /\ last.status = 401
    /\ last.detail = "Invalid token"

\* The instant t0 + TTL of the token of the last login
ExpiresAt(i) == i.at + timedelta_minutes(ACCESS_TOKEN_EXPIRE_MINUTES)

\* C5 as stated: the token issued at t0 is rejected as expired exactly when
\* now > t0 + TTL, and accepted otherwise.
C5_ExpiredAfterTTL ==
    IsSome(issued) =>
        LET i == Get(issued)
            r == check_token(Request(None, Bearer(i.token)), now)
        IN  /\ (r = ExpiredToken) <=> (now > ExpiresAt(i))
            /\ r /= ExpiredToken => r.err = None

\* C5, amended: the token issued at t0 carries exp = t0 + TTL cut down to whole
\* seconds, and is rejected as expired exactly when now >= exp: it is rejected
\* at t0 + TTL and one second later, and accepted at every time before exp.
C5_ExpiredFromExp ==
    IsSome(issued) =>
        LET i == Get(issued)
            exp == timegm(ExpiresAt(i)) * SecTicks
        IN  /\ i.token.payload.exp = timegm(ExpiresAt(i))
            /\ \A tm \in TimesAround(i.token) \cup {ExpiresAt(i), ExpiresAt(i) + SecTicks} :
                \A req \in Presented(i.token) :
                    /\ (check_token(req, tm) = ExpiredToken) <=> (tm >= exp)
                    /\ tm < exp => check_token(req, tm).err = None
            /\ check_token(Request(None, Bearer(i.token)), ExpiresAt(i)) = ExpiredToken
            /\ check_token(Request(None, Bearer(i.token)), ExpiresAt(i) + SecTicks) = ExpiredToken

\* The clock stands at t0 + TTL exactly and the token was just refused as expired.
C5_Witness ==
    /\ IsSome(issued)
    /\ now = ExpiresAt(Get(issued))
    /\ last.op = "logout"
    /\ last.status = 401
    /\ last.detail = "Token expired"

\* The claims of a decoded payload, without exp
Claims(payload) ==
    [email |-> payload.email,
     name |-> payload.name,
     role |-> payload.role,
     subscribed |-> payload.subscribed,
     subscription_date |-> payload.subscription_date]

\* Claim sets that no login of the model produces
ClaimSets ==
    {[email |-> e, name |-> NameOf(e), role |-> r, subscribed |-> s,
      subscription_date |-> d] :
        e \in Emails, r \in Roles, s \in BOOLEAN,
        d \in {None, isoformat(Some(0)), isoformat(Some(now))}}

-----------------------------------------------------------------------------
(* Guards *)

\* A payload signed by the server
Signed(payload) ==
    [wellformed |-> TRUE, payload |-> payload,
     sig |-> Sign(payload, SECRET_KEY, ALGORITHM)]

Valid(token, t) == jwt_decode(token, SECRET_KEY, ALGORITHM, t).error = ""

\* The tokens the server would have signed for the same email with other
\* role, subscribed, subscription_date and exp claims
Reissued(token) ==
    {Signed([token.payload EXCEPT !.role = r, !.subscribed = s,
                                  !.subscription_date = d, !.exp = e]) :
        r \in Roles, s \in BOOLEAN,
        d \in {None, isoformat(Some(now))},
        e \in {token.payload.exp, token.payload.exp + 1}}

\* What each guard, and the course list behind the subscription guard, decide
Decisions(request) ==
    <<get_current_subscribed_user(request, users, now),
      get_current_admin(request, users, now),
      get_current_user(request, users, now),
      get_course(request, users, courses, now).status>>

\* C2: two valid tokens with the same email get the same decision from every
\* guard, whatever their role, subscribed, subscription_date and exp claims:
\* the decision is taken on the stored row.
C2_GuardsIgnoreClaims ==
    \A t \in Held :
        LET decided == Decisions(Request(None, Bearer(t)))
        IN  Valid(t, now) =>
                \A v \in Reissued(t) :
                    Valid(v, now) => Decisions(Request(None, Bearer(v))) = decided

\* The only token there is was issued before the purchase and claims
\* subscribed = false; the course list was just served to it.
C2_Witness ==
    /\ IsSome(issued)
    /\ Get(issued).data.subscribed = FALSE
    /\ Valid(Get(issued).token, now)
    /\ last.op = "get_course"
    /\ last.status = 200

-----------------------------------------------------------------------------
(* Subscriptions *)

\* A request carrying a token issued at t for the row as it is stored
FreshRequest(row, t) ==
    Request(None, Bearer(create_access_token(token_data(row), t)))

\* C3: when a request authenticated as the admin purchases for a student named
\* in the path, the student's row is subscribed afterwards and the student's
\* next course-list request is answered 200.
C3_AdminPurchaseForStudent ==
    [][\A c \in Clients, id \in PathIds :
          ( /\ IsSome(id)
            /\ ~IsSome(get_current_admin(c, users, now).err)
            /\ users[Get(id)].role = "student"
            /\ Purchase(c, id) )
          => /\ users'[Get(id)].subscribed
             /\ get_course(FreshRequest(users'[Get(id)], now'),
                           users', courses', now').status = 200]_vars

\* The window of 30 days after the stored date has elapsed on a subscribed row
Lapsed(row, t) ==
    /\ row.subscribed
    /\ IsSome(row.subscription_date)
    /\ t > Get(row.subscription_date) + timedelta_days(SUBSCRIPTION_DURATION_DAYS)

\* C9: a course-list request of a user whose window has elapsed, and an admin
\* status check of such a user, each report the subscription inactive and
\* leave the stored row with subscribed = false.
C9_ExpiryCheckUnsubscribes ==
    [][/\ \A c \in Clients :
            LET g == get_current_user(c, users, now)
            IN  ( /\ ~IsSome(g.err)
                  /\ Lapsed(users[Get(g.row)], now)
                  /\ GetCourse(c) )
                => /\ last'.status = 403
                   /\ ~users'[Get(g.row)].subscribed
       /\ \A c \in Clients, e \in Emails :
            LET a == get_current_admin(c, users, now)
                u == find_user_by_email(users, e)
            IN  ( /\ ~IsSome(a.err)
                  /\ IsSome(u)
                  /\ Lapsed(users[Get(u)], now)
                  /\ CheckSubscription(c, e) )
                => /\ last'.detail = "Subscription expired"
                   /\ ~users'[Get(u)].subscribed]_vars

\* The times at which a subscription bought at t0 is looked at
CheckTimes(t0) ==
    LET window == timedelta_days(SUBSCRIPTION_DURATION_DAYS)
    IN  {t0, t0 + 1, t0 + timedelta_days(29), t0 + window - 1, t0 + window,
         t0 + window + 1, t0 + timedelta_days(31)}

\* C10: a purchase that succeeds now, followed by no other write to the row,
\* leaves the buyer active at every time up to now + 30 days and inactive at
\* every later time, for the course list and for the admin's status check.
C10_ActiveForThirtyDays ==
    \A c \in Clients :
        LET g == get_current_user(c, users, now)
            r == purchase_subscription(c, users, now)
        IN  (r.resp.status = 200 /\ r.users # users) =>
                \A t \in CheckTimes(now) :
                    LET row == r.users[Get(g.row)]
                        active == t <= now + timedelta_days(SUBSCRIPTION_DURATION_DAYS)
                    IN  /\ (get_course(FreshRequest(row, t), r.users, courses, t).status = 200)
                           <=> active
                        /\ subscription_status(row, t).body.subscribed <=> active

\* A purchase was made, 30 days and a tick have gone by since, and the course
\* list has just been refused as expired.
C10_Witness ==
    /\ last.op = "get_course"
    /\ last.detail = "Subscription has expired"
    /\ \E i \in 1..Len(users) :
          /\ Lapsed(users[i], now)
          /\ now = Get(users[i].subscription_date)
                     + timedelta_days(SUBSCRIPTION_DURATION_DAYS) + 1

-----------------------------------------------------------------------------
(* The course guard and the subscription policy *)

\* The course guard lets the owner of the row in at t
GuardAllows(row, t) ==
    ~IsSome(get_current_subscribed_user(FreshRequest(row, t), users, t).err)

\* The status check reports the row active at t
is_active(row, t) == subscription_status(row, t).body.subscribed

-----------------------------------------------------------------------------
(* Repeated purchase *)

\* n purchases in a row by the same request, the k-th at time t + k - 1
RECURSIVE purchase_n(_, _, _, _)
purchase_n(request, tbl, t, n) ==
    IF n = 1 THEN purchase_subscription(request, tbl, t)
    ELSE purchase_subscription(request, purchase_n(request, tbl, t, n - 1).users, t + n - 1)

AlreadyPurchased == Ok(Some([message |-> "Already purchased"]))

\* C11: every purchase after the first by an authenticated user, and every
\* purchase by a user whose row is subscribed already, is answered "Already
\* purchased" and leaves the row, its subscribed flag and its date, as it was.
C11_PurchaseIdempotent ==
    \A c \in Clients :
        LET g == get_current_user(c, users, now)
        IN  ~IsSome(g.err) =>
                /\ \A n \in 2..MaxRepeat :
                      /\ purchase_n(c, users, now, n).users = purchase_n(c, users, now, 1).users
                      /\ purchase_n(c, users, now, n).resp = AlreadyPurchased
                /\ users[Get(g.row)].subscribed =>
                      /\ purchase_n(c, users, now, 1).users = users
                      /\ purchase_n(c, users, now, 1).resp = AlreadyPurchased

\* A user who bought earlier has just bought again: the answer was "Already
\* purchased" and every stored date is still earlier than now.
C11_Witness ==
    /\ last.op = "purchase"
    /\ last.detail = "Already purchased"
    /\ \E i \in 1..Len(users) : users[i].subscribed
    /\ \A i \in 1..Len(users) :
          users[i].subscribed =>
              /\ IsSome(users[i].subscription_date)
              /\ Get(users[i].subscription_date) < now

-----------------------------------------------------------------------------
(* The admin guard *)

\* The stores after a request, and the status and detail of its response
Outcome(u, crs, resp) ==
    [users |-> u, courses |-> crs, status |-> resp.status, detail |-> resp.detail]

\* What each route behind the admin guard does with the request at t
AdminOutcomes(c, t) ==
    {LET r == add_course(c, f, users, courses, t)
     IN  Outcome(users, r.courses, r.resp) : f \in CourseForms}
    \cup {LET r == update_course(c, x[1], x[2], users, courses, t)
          IN  Outcome(users, r.courses, r.resp) : x \in CourseIds \X CourseForms}
    \cup {LET r == delete_course(c, id, users, courses, t)
          IN  Outcome(users, r.courses, r.resp) : id \in CourseIds}
    \cup {LET r == check_subscription(c, e, users, t)
          IN  Outcome(r.users, courses, r.resp) : e \in Emails}
    \cup {Outcome(users, courses, get_all_users(c, users, t))}

\* The times at which the row is looked at: now and, if it has a subscription
\* date, the last instant of its window and the first instant after it
RowTimes(row) ==
    {now} \cup (IF IsSome(row.subscription_date)
                THEN {Get(row.subscription_date) + timedelta_days(SUBSCRIPTION_DURATION_DAYS),
                      Get(row.subscription_date) + timedelta_days(SUBSCRIPTION_DURATION_DAYS) + 1}
                ELSE {})

\* The requests of the owner of the row at t: those of the client if its token
\* names the row and verifies at t, and those with a token issued at t
OwnRequests(i, t) ==
    {c \in Clients : get_current_user(c, users, t).row = Some(i)}
    \cup {FreshRequest(users[i], t)}

AdminRequired == "Admin access required"

\* C12: a request behind the admin guard with a valid token of a user whose
\* stored role is student is answered 403 "Admin access required" and leaves
\* both tables as they were, whether the student's subscription is absent,
\* active or lapsed.
C12_StudentForbidden ==
    \A i \in 1..Len(users) :
        users[i].role = "student" =>
            \A t \in RowTimes(users[i]) : \A c \in OwnRequests(i, t) :
                \A o \in AdminOutcomes(c, t) :
                    /\ o.status = 403
                    /\ o.detail = AdminRequired
                    /\ o.users = users
                    /\ o.courses = courses

\* The student, subscribed, has just been refused the deletion of a course
\* that exists.
C12_Witness ==
    /\ last = [op |-> "delete_course", status |-> 403, detail |-> "Admin access required"]
    /\ IsSome(find_course(courses, 1))
    /\ \E i \in 1..Len(users) : users[i].role = "student" /\ users[i].subscribed

-----------------------------------------------------------------------------
(* Roles and the subscription guard *)

OtherRole(role) == IF role = "admin" THEN "student" ELSE "admin"

\* The users table with the role of row i exchanged
WithOtherRole(i) == [users EXCEPT ![i].role = OtherRole(@)]

\* The row has no active subscription at t
Inactive(row, t) == ~row.subscribed \/ Lapsed(row, t)

\* C13: the course list and the course filter answer the owner of a row the
\* same whatever the role stored in the row, and an admin whose row has no
\* active subscription is answered 403 by both.
C13_AdminNotEntitled ==
    \A i \in 1..Len(users) : \A t \in RowTimes(users[i]) : \A c \in OwnRequests(i, t) :
        /\ get_course(c, users, courses, t) = get_course(c, WithOtherRole(i), courses, t)
        /\ \A q \in Queries :
              filter_course(c, q, users, courses, t)
                  = filter_course(c, q, WithOtherRole(i), courses, t)
        /\ (users[i].role = "admin" /\ Inactive(users[i], t)) =>
              /\ get_course(c, users, courses, t).status = 403
              /\ \A q \in Queries : filter_course(c, q, users, courses, t).status = 403

\* The admin, logged in and not subscribed, has just been refused the filter of
\* a course table that holds a course.
C13_Witness ==
    /\ last = [op |-> "filter_course", status |-> 403,
               detail |-> "Subscription required to access courses"]
    /\ IsSome(issued)
    /\ Get(issued).data.role = "admin"
    /\ courses /= <<>>
    /\ \A i \in 1..Len(users) : users[i].role = "admin" => ~users[i].subscribed

-----------------------------------------------------------------------------
(* The user store *)

\* C14: after any sequence of registrations, purchases, status checks and
\* course requests, every row with subscribed = true has a subscription date.
C14_SubscribedHasDate ==
    \A i \in 1..Len(users) : users[i].subscribed => IsSome(users[i].subscription_date)

\* One user bought and was set back to unsubscribed by the status check, and
\* another is subscribed.
C14_Witness ==
    \E i, j \in 1..Len(users) :
        /\ ~users[i].subscribed
        /\ IsSome(users[i].subscription_date)
        /\ users[j].subscribed
        /\ IsSome(users[j].subscription_date)

-----------------------------------------------------------------------------
(* Token transport *)

\* The tokens a request can carry: the client's, altered and forged ones, and
\* those of logins at time 0 and now
Carried ==
    Held \cup UNION {Tampered(t) \cup Forged(t) : t \in Held}
         \cup {Malformed} \cup LoginTokens(0) \cup LoginTokens(now)

\* C15: with a token in the cookie and a token in the Authorization header the
\* outcome is that of the cookie alone, so a bad cookie is refused even beside
\* a good header; with no cookie the outcome is that of the header token.
C15_CookieFirst ==
    \A x \in Carried, y \in Carried : \A t \in {now, now + 1} :
        /\ check_token(Request(Some(x), Bearer(y)), t) = check_token(Request(Some(x), None), t)
        /\ check_token(Request(None, Bearer(y)), t) = check_token(Request(Some(y), None), t)

\* The cookie of the jar has expired, a login now would give a token that
\* verifies, and a logout has just been refused as expired.
C15_Witness ==
    /\ IsSome(jar)
    /\ last = [op |-> "logout", status |-> 401, detail |-> "Token expired"]
    /\ \E y \in LoginTokens(now) :
          /\ check_token(Request(None, Bearer(y)), now).err = None
          /\ check_token(Request(jar, Bearer(y)), now) = ExpiredToken

MissingToken ==
    [err |-> Some(HTTPException(401, "No token found in cookies or Authorization header")),
     user |-> None]

\* The cookies and the Authorization headers a request can have
Cookies == {None} \cup {Some(x) : x \in Carried}
Headers == {None} \cup {Bearer(x) : x \in Carried} \cup {Basic(x) : x \in Carried}

\* C16: a request is refused with "No token found in cookies or Authorization
\* header" exactly when it has no cookie and no Authorization header of the
\* Bearer scheme; that outcome is neither "Invalid token" nor "Token expired".
C16_MissingToken ==
    /\ MissingToken \notin {InvalidToken, ExpiredToken}
    /\ \A cookie \in Cookies, auth \in Headers : \A t \in {now, now + 1} :
          check_token(Request(cookie, auth), t) = MissingToken
              <=> /\ cookie = None
                  /\ auth = None \/ Get(auth).scheme /= "Bearer"

\* The client holds a token that verifies, and a logout that did not carry it
\* as cookie or Bearer token has just been refused for want of a token.
C16_Witness ==
    /\ last = [op |-> "logout", status |-> 401,
               detail |-> "No token found in cookies or Authorization header"]
    /\ \E x \in Held :
          /\ check_token(Request(None, Bearer(x)), now).err = None
          /\ check_token(Request(None, Basic(x)), now) = MissingToken

-----------------------------------------------------------------------------
(* Refused registrations *)

DuplicateEmail == HTTPException(400, "User with this email already exists")
AdminExists == HTTPException(400, "Admin user already exists")

RegisterForms ==
    {[name |-> NameOf(e), email |-> e, password |-> p, role |-> r] :
        e \in RegEmails, p \in Passwords, r \in Roles}

\* C17: a registration under a registered email is refused as a duplicate
\* email, one as admin under a new email while an admin exists is refused
\* because an admin exists; the two refusals differ and neither changes the
\* users table.
C17_RegisterRefusals ==
    /\ DuplicateEmail /= AdminExists
    /\ \A user \in RegisterForms :
          LET r == register_user(users, user)
          IN  /\ Registered(user.email) =>
                    r.resp = DuplicateEmail /\ r.users = users
              /\ (~Registered(user.email) /\ user.role = "admin" /\ Admins /= {}) =>
                    r.resp = AdminExists /\ r.users = users

\* A registration under a registered email has just been refused while an
\* admin exists and an email is still free: both refusals can be had.
C17_Witness ==
    /\ last = [op |-> "register", status |-> 400,
               detail |-> "User with this email already exists"]
    /\ Admins /= {}
    /\ \E e \in RegEmails : ~Registered(e)

-----------------------------------------------------------------------------
(* Logout *)

LoggedOut == [op |-> "logout", status |-> 200, detail |-> "Logged out"]

\* The times from now on at which the token has not expired
Until(token) == {t \in {now, now + 1, ExpTicks(token) - 1} : now <= t /\ t < ExpTicks(token)}

\* Each guard lets the token of the Authorization header through as far as the
\* stored row allows: none answers 401
Honoured(token, t) ==
    LET request == Request(None, Bearer(token))
    IN  /\ check_token(request, t).err = None
        /\ get_current_user(request, users, t).err = None
        /\ get_current_admin(request, users, t).err \in {None, Some(HTTPException(403, AdminRequired))}
        /\ get_current_subscribed_user(request, users, t).err
              \in {None, Some(HTTPException(403, "Subscription required to access courses")),
                   Some(HTTPException(403, "Subscription has expired"))}

\* C18: a logout that succeeds changes neither table, and after it the token
\* that was logged out is let through by every guard, as before, at every
\* time before its exp.
C18_LogoutKeepsToken ==
    /\ [][(last' = LoggedOut /\ now' = now /\ \E c \in Clients \cup Doubled : Logout(c)) =>
              users' = users /\ courses' = courses]_vars
    /\ [](last = LoggedOut => \A x \in Held : \A t \in Until(x) : Honoured(x, t))

\* The client has logged out, its jar is empty, and the token it was given
\* has not expired.
C18_Witness ==
    /\ last = LoggedOut
    /\ jar = None
    /\ \E x \in Held : now < ExpTicks(x) /\ Honoured(x, now)

-----------------------------------------------------------------------------
(* 401 and 403 *)

\* Tokens the server signed at t for the admin and the student of the tests,
\* whether or not their rows are stored
Ghosts(t) ==
    {create_access_token(token_data(Enrolled[i]), t) : i \in 1..Len(Enrolled)}
    \cup {create_access_token([token_data(Enrolled[i]) EXCEPT !.subscribed = TRUE], t) :
             i \in 1..Len(Enrolled)}

\* The requests a guard can meet
Probes ==
    Clients \cup Escalations \cup Attackers
    \cup {Request(None, Bearer(x)) : x \in Ghosts(now)}

\* The token of the request verifies at t and names a stored user
Authenticated(c, t) ==
    /\ check_token(c, t).err = None
    /\ IsSome(find_user_by_email(users, Get(check_token(c, t).user).email))

\* The status of every guard and of every guarded route for the request at t,
\* each route with one input
GuardedStatuses(c, t) ==
    LET form == CHOOSE f \in CourseForms : TRUE
        email == CHOOSE e \in Emails : TRUE
    IN  {Get(g.err).status :
            g \in {x \in {get_current_user(c, users, t), get_current_admin(c, users, t),
                          get_current_subscribed_user(c, users, t)} : IsSome(x.err)}}
        \cup {add_course(c, form, users, courses, t).resp.status,
              update_course(c, 1, form, users, courses, t).resp.status,
              delete_course(c, 1, users, courses, t).resp.status,
              check_subscription(c, email, users, t).resp.status,
              get_all_users(c, users, t).status,
              purchase_subscription(c, users, t).resp.status,
              get_course(c, users, courses, t).status,
              filter_course(c, "math", users, courses, t).status}

\* C19: a guarded request whose token is missing, invalid or expired, or names
\* no stored user, is answered 401 by every guard and every guarded route,
\* whatever the claims of the token and the rows of the table; so 403 is only
\* ever the answer to a token that verified and whose user was found.
C19_Unauthorized ==
    [](/\ \A c \in Probes :
             Authenticated(c, now) \/ GuardedStatuses(c, now) = {401}
       /\ \A c \in Clients \cup Escalations :
             LET t == now + timedelta_minutes(ACCESS_TOKEN_EXPIRE_MINUTES)
             IN  Authenticated(c, t) \/ GuardedStatuses(c, t) = {401})

\* A request without a token has just been refused the deletion of a course
\* that exists with 401, and there is a signed token with the claim subscribed,
\* naming a student that is not stored, which the subscription guard refuses
\* with 401 as well.
C19_Witness ==
    /\ last = [op |-> "delete_course", status |-> 401,
               detail |-> "No token found in cookies or Authorization header"]
    /\ IsSome(find_course(courses, 1))
    /\ \E x \in Ghosts(now) :
          /\ x.payload.subscribed
          /\ get_current_subscribed_user(Request(None, Bearer(x)), users, now).err
                = Some(HTTPException(401, "User not found"))

-----------------------------------------------------------------------------
(* Failed requests *)

Failure(status) == status \in {400, 401, 403, 404}

\* The requests and the times at which they are made: those of the client,
\* with raised claims, and with a token of a user that may not be stored, now;
\* those of the client once its token has expired; and those of the owner of
\* each row around the end of its subscription window
Cases ==
    {<<c, now>> : c \in Clients \cup Escalations
                         \cup {Request(None, Bearer(x)) : x \in Ghosts(now)}}
    \cup {<<c, now + timedelta_minutes(ACCESS_TOKEN_EXPIRE_MINUTES)>> : c \in Clients}
    \cup UNION {{<<FreshRequest(users[i], t), t>> : t \in RowTimes(users[i]) \ {now}} :
                   i \in 1..Len(users)}

\* What the routes that take no token do at t
OpenOutcomes(t) ==
    {LET r == register_user(users, user)
     IN  Outcome(r.users, courses, r.resp) : user \in RegisterForms}
    \cup {Outcome(users, courses, login_user(users, [email |-> e, password |-> p], t)) :
             e \in RegEmails, p \in Passwords}
    \cup {Outcome(users, courses, Get(purchase_route(Some(id)))) : id \in 1..Len(users)}

\* What every other route does with the request at t
Outcomes(c, t) ==
    AdminOutcomes(c, t)
    \cup {Outcome(users, courses, logout_user(c, t))}
    \cup {LET r == purchase_subscription(c, users, t)
          IN  Outcome(r.users, courses, r.resp)}
    \cup {Outcome(users, courses, get_course(c, users, courses, t))}
    \cup {Outcome(users, courses, filter_course(c, q, users, courses, t)) :
             q \in {"math", "12", "history"}}

\* C20: a request answered 400, 401, 403 or 404, on any route, leaves the
\* users table and the courses table as they were.
C20_FailureChangesNothing ==
    [](/\ \A o \in OpenOutcomes(now) :
             Failure(o.status) => o.users = users /\ o.courses = courses
       /\ \A x \in Cases : \A o \in Outcomes(x[1], x[2]) :
             Failure(o.status) => o.users = users /\ o.courses = courses)

\* The admin has just been refused the update of a course that does not
\* exist, while another course does, and a registration of a second admin
\* would be refused too.
C20_Witness ==
    /\ last = [op |-> "update_course", status |-> 404,
               detail |-> "The course with id=2 does not exist"]
    /\ IsSome(find_course(courses, 1))
    /\ \E user \in RegisterForms : register_user(users, user).resp = AdminExists

-----------------------------------------------------------------------------
(* Unique emails *)

\* C21: after any sequence of register requests no two stored users have the
\* same email, and a register request with a stored email adds no user.
C21_UniqueEmails ==
    /\ \A i, j \in 1..Len(users) : users[i].email = users[j].email => i = j
    /\ \A user \in RegisterForms :
          Registered(user.email) =>
              Len(register_user(users, user).users) = Len(users)

\* Every email is stored, and a further registration has just been refused
\* as a duplicate.
C21_Witness ==
    /\ \A e \in RegEmails : Registered(e)
    /\ Len(users) = Cardinality(RegEmails)
    /\ last = [op |-> "register", status |-> 400,
               detail |-> "User with this email already exists"]

-----------------------------------------------------------------------------
(* Requests handled in steps *)

\* A request is in flight between the statement that reads the store and the
\* statements that read the clock and write the store. What is kept of it: the
\* route, the index of the row its session loaded, the row as it was loaded,
\* and the statement it has reached.
InFlight(op, i, row, pc) == [op |-> op, row |-> i, user |-> row, pc |-> pc]

Without(seq, i) == [k \in 1..(Len(seq) - 1) |-> IF k < i THEN seq[k] ELSE seq[k + 1]]

\* check_subscription up to the query of line 127: the guard, then the row
check_fetch(request, email, tbl, t) ==
    LET g == get_current_admin(request, tbl, t)
        user == find_user_by_email(tbl, email)
    IN  IF IsSome(g.err) THEN [resp |-> g.err, row |-> None]
        ELSE IF ~IsSome(user)
        THEN [resp |-> Some(HTTPException(404, "User not found")), row |-> None]
        ELSE [resp |-> None, row |-> user]

\* expires_on of line 137, on a row that has a date
expires_on(row) ==
    Get(row.subscription_date) + timedelta_days(SUBSCRIPTION_DURATION_DAYS)

\* check_subscription from line 134 to line 142, on the row the session loaded,
\* with the clock as line 138 reads it: whether the request goes on to the
\* report, whether it writes subscribed = False, and what it answers if it ends
check_expiry(user, t) ==
    IF ~user.subscribed \/ ~IsSome(user.subscription_date)
    THEN [active |-> FALSE, write |-> FALSE,
          resp |-> Ok(Some([subscribed |-> FALSE, message |-> "No active subscription",
                            days_left |-> None]))]
    ELSE IF t > expires_on(user)
    THEN [active |-> FALSE, write |-> TRUE,
          resp |-> Ok(Some([subscribed |-> FALSE, message |-> "Subscription expired",
                            days_left |-> None]))]
    ELSE [active |-> TRUE, write |-> FALSE, resp |-> Ok(None)]

\* check_subscription from line 144 to line 149, with the clock as line 148
\* reads it
check_report(user, t) ==
    Ok(Some([subscribed |-> TRUE, message |-> "",
             days_left |-> Some(td_days(expires_on(user) - t))]))

\* UPDATE users SET subscribed = 0 WHERE id = ?: the session writes the one
\* attribute it changed
update_subscribed(tbl, i) == [tbl EXCEPT ![i] = expired(tbl[i])]

\* UPDATE users SET subscribed = 1, subscription_date = ? WHERE id = ?
update_purchased(tbl, i, t) == [tbl EXCEPT ![i] = purchased(tbl[i], t)]

\* purchase_subscription from line 95 on, on the row the dependency loaded:
\* whether it writes, and what it answers
purchase_decide(user) ==
    IF user.subscribed
    THEN [write |-> FALSE, resp |-> Ok(Some([message |-> "Already purchased"]))]
    ELSE [write |-> TRUE,
          resp |-> Ok(Some([message |-> "Subscription purchased successfully"]))]

\* The last request with the time of its response, the email it was about and
\* what a status check reported
Replied(op, resp, email, t) ==
    [op |-> op, status |-> resp.status, detail |-> Last(op, resp).detail,
     email |-> email, at |-> t,
     subscribed |-> op = "check_subscription" /\ resp.status = 200
                       /\ Get(resp.body).subscribed,
     days_left |-> IF op = "check_subscription" /\ resp.status = 200
                   THEN Get(resp.body).days_left ELSE None]

\* The requests of the registered users, each with a token of a login at t
Callers(t) == {FreshRequest(users[i], t) : i \in 1..Len(users)}

\* GET /subscription/check/{email}: the guard and the query
CheckFetch(c, email, cap) ==
    LET r == check_fetch(c, email, users, now)
    IN  /\ Len(inflight) < cap
        /\ inflight' = IF IsSome(r.row)
                       THEN Append(inflight, InFlight("check_subscription", Get(r.row),
                                                      users[Get(r.row)], "fetched"))
                       ELSE inflight
        /\ last' = IF IsSome(r.resp)
                   THEN Replied("check_subscription", Get(r.resp), email, now)
                   ELSE last
        /\ UNCHANGED <<users, courses, now, clock, issued, jar, passwords>>

\* Lines 134 to 142: the first reading of the clock, and the write
CheckExpiry(i) ==
    LET q == inflight[i]
        r == check_expiry(q.user, now)
    IN  /\ q.op = "check_subscription"
        /\ q.pc = "fetched"
        /\ users' = IF r.write THEN update_subscribed(users, q.row) ELSE users
        /\ inflight' = IF r.active THEN [inflight EXCEPT ![i].pc = "active"]
                       ELSE Without(inflight, i)
        /\ last' = IF r.active THEN last
                   ELSE Replied("check_subscription", r.resp, q.user.email, now)
        /\ UNCHANGED <<courses, now, clock, issued, jar, passwords>>

\* Lines 144 to 149: the second reading of the clock
CheckReport(i) ==
    LET q == inflight[i]
    IN  /\ q.op = "check_subscription"
        /\ q.pc = "active"
        /\ inflight' = Without(inflight, i)
        /\ last' = Replied("check_subscription", check_report(q.user, now),
                           q.user.email, now)
        /\ UNCHANGED <<users, courses, now, clock, issued, jar, passwords>>

\* POST /subscription/purchase: the dependency get_current_user
PurchaseFetch(c, cap) ==
    LET g == get_current_user(c, users, now)
    IN  /\ Len(inflight) < cap
        /\ inflight' = IF IsSome(g.err) THEN inflight
                       ELSE Append(inflight, InFlight("purchase", Get(g.row),
                                                      users[Get(g.row)], "fetched"))
        /\ last' = IF IsSome(g.err) THEN Replied("purchase", Get(g.err), "", now)
                   ELSE last
        /\ UNCHANGED <<users, courses, now, clock, issued, jar, passwords>>

\* Lines 95 to 110: the test on the loaded row, and the write
PurchaseWrite(i) ==
    LET q == inflight[i]
        r == purchase_decide(q.user)
    IN  /\ q.op = "purchase"
        /\ q.pc = "fetched"
        /\ users' = IF r.write THEN update_purchased(users, q.row, now) ELSE users
        /\ inflight' = Without(inflight, i)
        /\ last' = Replied("purchase", r.resp, q.user.email, now)
        /\ UNCHANGED <<courses, now, clock, issued, jar, passwords>>

\* The subscription routes handled one request at a time; while a request is
\* handled the clock advances by single ticks only
NextStatus ==
    \/ inflight = <<>> /\ \E e \in Emails : Register(e, PasswordOf(e), RoleOf(e))
    \/ \E c \in Callers(now), e \in Emails : CheckFetch(c, e, 1)
    \/ \E i \in 1..Len(inflight) : CheckExpiry(i)
    \/ \E i \in 1..Len(inflight) : CheckReport(i)
    \/ \E c \in Callers(now) : PurchaseFetch(c, 1)
    \/ \E i \in 1..Len(inflight) : PurchaseWrite(i)
    \/ \E d \in WindowSteps : (inflight = <<>> \/ d = 1) /\ Tick(d)

SpecStatus == Init /\ [][NextStatus]_vars

-----------------------------------------------------------------------------
(* The status report *)

\* C22: when an admin's status check of a registered user is answered, it
\* reports subscribed = true exactly when the row is subscribed, has a date and
\* the clock is not past the date plus 30 days; then days_left is the whole
\* number of days left until the date plus 30 days, and lies between 0 and 30.
C22_StatusReport ==
    (last.op = "check_subscription" /\ last.status = 200 /\ last.at = now) =>
        LET row == users[Get(find_user_by_email(users, last.email))]
            active == /\ row.subscribed
                      /\ IsSome(row.subscription_date)
                      /\ now <= expires_on(row)
        IN  /\ last.subscribed <=> active
            /\ last.subscribed =>
                  /\ last.days_left = Some(td_days(expires_on(row) - now))
                  /\ Get(last.days_left) \in 0..SUBSCRIPTION_DURATION_DAYS

-----------------------------------------------------------------------------
(* Concurrent checks and purchases *)

\* The subscription routes with up to MaxInflight requests handled at once,
\* their steps interleaved in every order
NextRace ==
    \/ \E e \in Emails : Register(e, PasswordOf(e), RoleOf(e))
    \/ \E c \in Callers(now), e \in Emails : CheckFetch(c, e, MaxInflight)
    \/ \E i \in 1..Len(inflight) : CheckExpiry(i)
    \/ \E i \in 1..Len(inflight) : CheckReport(i)
    \/ \E c \in Callers(now) : PurchaseFetch(c, MaxInflight)
    \/ \E i \in 1..Len(inflight) : PurchaseWrite(i)
    \/ \E d \in WindowSteps : (inflight = <<>> \/ d = 1) /\ Tick(d)

SpecRace == Init /\ [][NextRace]_vars

\* C23: under every interleaving of expiry checks and purchases on a user, a
\* row whose subscription date is less than 30 days old is never left with
\* subscribed = false: no check that read the row before a purchase undoes it.
C23_PurchaseNotUndone ==
    \A i \in 1..Len(users) :
        ( /\ IsSome(users[i].subscription_date)
          /\ now < expires_on(users[i]) )
        => users[i].subscribed

-----------------------------------------------------------------------------
(* Regaining access *)

\* The requests of the registered students, each with a token of a login at t
StudentCalls(t) ==
    {FreshRequest(users[i], t) : i \in {k \in 1..Len(users) : users[k].role = "student"}}

\* The student's own purchase and course-list requests
OwnPurchase == \E c \in StudentCalls(now) : Purchase(c, None)
OwnGetCourse == \E c \in StudentCalls(now) : GetCourse(c)

\* The users acting for themselves: registration, purchases and course lists,
\* and no admin status check
NextSelf ==
    \/ \E e \in Emails : Register(e, PasswordOf(e), RoleOf(e))
    \/ \E c \in Callers(now) : Purchase(c, None)
    \/ \E c \in Callers(now) : GetCourse(c)
    \/ \E d \in WindowSteps : Tick(d)

\* The student keeps sending purchase and course-list requests, and every
\* request sent is handled
SpecSelf ==
    Init /\ [][NextSelf]_vars /\ WF_vars(OwnPurchase) /\ WF_vars(OwnGetCourse)

StudentLapsed ==
    \E i \in 1..Len(users) : users[i].role = "student" /\ Lapsed(users[i], now)

\* The student's row has a date whose window has not elapsed, and the course
\* guard lets the student in
StudentRegained ==
    \E i \in 1..Len(users) :
        /\ users[i].role = "student"
        /\ users[i].subscribed
        /\ IsSome(users[i].subscription_date)
        /\ now <= expires_on(users[i])
        /\ GuardAllows(users[i], now)

\* C24: a student whose 30-day window has elapsed regains access by the
\* student's own requests alone: a purchase eventually sets a new date and the
\* course list is allowed again, no admin status check running in between.
C24_RegainsAccess == StudentLapsed ~> StudentRegained

-----------------------------------------------------------------------------
(* Concurrent registrations *)

\* register_user up to line 50: the two queries, and the refusal if any
register_checks(tbl, user) ==
    IF IsSome(find_user_by_email(tbl, user.email))
    THEN Some(HTTPException(400, "User with this email already exists"))
    ELSE IF user.role = "admin" /\ IsSome(find_user_by_role(tbl, "admin"))
    THEN Some(HTTPException(400, "Admin user already exists"))
    ELSE None

\* register_user from line 52 on: the INSERT. The table refuses a second row
\* with the same email (unique = True); the handler does not catch the error,
\* and the request is answered 500. The role column has no such constraint.
register_insert(tbl, user) ==
    IF IsSome(find_user_by_email(tbl, user.email))
    THEN [users |-> tbl, resp |-> HTTPException(500, "Internal Server Error")]
    ELSE [users |-> Append(tbl, NewUser(tbl, user)),
          resp |-> Ok(Some(NewUser(tbl, user)))]

\* POST /user/register: the queries of lines 36 and 45
RegisterFetch(email, password, role, cap) ==
    LET user == [name |-> NameOf(email), email |-> email,
                 password |-> password, role |-> role]
        refusal == register_checks(users, user)
    IN  /\ Len(inflight) < cap
        /\ inflight' = IF IsSome(refusal) THEN inflight
                       ELSE Append(inflight, InFlight("register", 0, user, "checked"))
        /\ last' = IF IsSome(refusal) THEN Replied("register", Get(refusal), email, now)
                   ELSE last
        /\ UNCHANGED <<users, courses, now, clock, issued, jar, passwords>>

\* Lines 52 to 64: db.add, db.commit
RegisterInsert(i) ==
    LET q == inflight[i]
        r == register_insert(users, q.user)
    IN  /\ q.op = "register"
        /\ users' = r.users
        /\ passwords' = IF r.resp.status = 200
                        THEN Append(passwords, [email |-> q.user.email,
                                                password |-> q.user.password])
                        ELSE passwords
        /\ inflight' = Without(inflight, i)
        /\ last' = Replied("register", r.resp, q.user.email, now)
        /\ UNCHANGED <<courses, now, clock, issued, jar>>

\* Registrations with up to MaxInflight requests handled at once
NextRegRace ==
    \/ \E e \in RegEmails, r \in Roles : RegisterFetch(e, PasswordOf(e), r, MaxInflight)
    \/ \E i \in 1..Len(inflight) : RegisterInsert(i)

SpecRegRace == Init /\ [][NextRegRace]_vars

\* C25: under every interleaving of concurrent register requests with role
\* admin and distinct emails, at most one of them succeeds and the users table
\* never holds two admins.
C25_OneAdminUnderRace ==
    \A i, j \in 1..Len(users) :
        (users[i].role = "admin" /\ users[j].role = "admin") => i = j

-----------------------------------------------------------------------------
(* The frame of a purchase *)

\* The row but for its subscription columns
Account(row) == [id |-> row.id, name |-> row.name, email |-> row.email,
                 role |-> row.role, hashed_password |-> row.hashed_password]

\* The email the token of the request names, if the token is honoured at t
TokenEmail(c, t) ==
    LET token == check_token(c, t)
    IN  IF IsSome(token.err) THEN None ELSE Some(Get(token.user).email)

\* The requests of a client that puts another user's email in its token, the
\* signature kept
Impersonations ==
    {Request(Some([t EXCEPT !.payload.email = OtherEmail(t.payload.email)]), None) :
        t \in Held}

-----------------------------------------------------------------------------
(* Users are kept *)

UserNotFound == HTTPException(401, "User not found")

\* The errors the three guards raise for the token at t
GuardErrors(token, t) ==
    LET c == Request(None, Bearer(token))
    IN  {get_current_user(c, users, t).err,
         get_current_admin(c, users, t).err,
         get_current_subscribed_user(c, users, t).err}

\* C27: no operation removes a row of the users table or changes its email or
\* role; so for a token issued by login every later guard check finds a row
\* with the token's email and role, and never answers "User not found".
C27_UsersAreKept ==
    /\ [][/\ Len(users') >= Len(users)
          /\ \A i \in 1..Len(users) :
                /\ users'[i].email = users[i].email
                /\ users'[i].role = users[i].role]_vars
    /\ [](\A x \in Held :
            LET user == find_user_by_email(users, x.payload.email)
            IN  /\ IsSome(user)
                /\ users[Get(user)].role = x.payload.role
                /\ Some(UserNotFound) \notin GuardErrors(x, now))

\* The student logged in, purchased afterwards, and at a later time the guard
\* of the course list has just let the student's token in.
C27_Witness ==
    /\ IsSome(issued)
    /\ now > Get(issued).at
    /\ last = [op |-> "get_course", status |-> 200, detail |-> ""]
    /\ \E i \in 1..Len(users) :
          /\ users[i].email = Get(issued).token.payload.email
          /\ users[i].role = "student"
          /\ users[i].subscription_date = Some(Get(issued).at)
    /\ Len(users) = 2

-----------------------------------------------------------------------------
(* Filtering courses *)

\* models.CourseModel: category and grade are Literal types
Categories == {"science", "math", "ict"}
Grades == {6, 8, 10, 12}

\* The course forms CourseModel accepts, one for every category and grade
AllowedForms ==
    {[title |-> "Test Course", description |-> "Test Description",
      author |-> "Test Author", course_url |-> "https://example.com",
      category |-> cat, grade |-> g] : cat \in Categories, g \in Grades}

\* The path segment of a grade
GradeQuery(g) == ToString(g)

\* Courses of every allowed category and grade, added by the admin and
\* filtered by the users
NextFilter ==
    \/ \E e \in Emails : Register(e, PasswordOf(e), RoleOf(e))
    \/ \E c \in Callers(now) : Purchase(c, None)
    \/ \E c \in Callers(now), form \in AllowedForms : AddCourse(c, form)
    \/ \E c \in Callers(now), id \in CourseIds : DeleteCourse(c, id)
    \/ \E c \in Callers(now), q \in Queries : FilterCourse(c, q)

SpecFilter == Init /\ [][NextFilter]_vars

\* The response lists the course
Lists(resp, course) ==
    /\ resp.status = 200
    /\ \E j \in 1..Len(Get(resp.body)) : Get(resp.body)[j] = course

\* C28: every course that add_course accepted is found again by the filter:
\* a subscribed user's query for the course's category, and for its grade, is
\* accepted and answered with the stored courses of that value, the course
\* among them, and not refused with 400.
C28_AcceptedIsFound ==
    \A c \in Callers(now) :
        ~IsSome(get_current_subscribed_user(c, users, now).err) =>
            \A k \in 1..Len(courses) :
                /\ Lists(filter_course(c, courses[k].category, users, courses, now),
                         courses[k])
                /\ Lists(filter_course(c, GradeQuery(courses[k].grade), users, courses, now),
                         courses[k])

====
